---------------------------- MODULE Spec2Model ----------------------------
(***************************************************************************)
(* Model of the ask-vid-gpt backend (Flask + SQLAlchemy):                  *)
(*   - the transcript chunker of services/transcript_service.py,           *)
(*   - the auth gate of middleware/auth.py,                                *)
(*   - the routes and services of users, collections, videos and          *)
(*     transcripts over the database.                                      *)
(*                                                                         *)
(* Strings are sequences of one-character strings; positions are 0-based   *)
(* as in Python, so content[i] is written CharAt(content, i).              *)
(***************************************************************************)
EXTENDS Integers, Sequences, FiniteSets, TLC

(* ----------------------------- bounds --------------------------------- *)
\* longest chunker input explored
MaxLen == 5
\* largest chunk_size explored by the chunker specification
MaxChunkSize == 3
\* largest id a request names; the seeded rows use smaller ids
MaxId == 3
\* longest chunker input built from one letter and the space only
MaxWordsLen == 6
\* longest text length given to _chunk_size_for_length
MaxTextLength == 16000

(* ------------------------ Python string helpers ------------------------ *)
\* the characters inputs are built from: two letters, the space, a newline
Chars == {"a", "b", " ", "\n"}

\* str.strip() with no argument strips these (str.isspace)
Whitespace == {" ", "\n"}

Strings(n) == UNION {[1..k -> Chars] : k \in 0..n}

Min(a, b) == IF a <= b THEN a ELSE b

CharAt(s, i) == s[i + 1]

\* s[lo:hi] for 0 <= lo, hi <= len(s)
Slice(s, lo, hi) == IF hi <= lo THEN <<>> ELSE SubSeq(s, lo + 1, hi)

RECURSIVE LStrip(_)
LStrip(s) ==
    IF s # <<>> /\ Head(s) \in Whitespace THEN LStrip(Tail(s)) ELSE s

RECURSIVE RStrip(_)
RStrip(s) ==
    IF s # <<>> /\ s[Len(s)] \in Whitespace
    THEN RStrip(SubSeq(s, 1, Len(s) - 1))
    ELSE s

\* str.strip()
Strip(s) == RStrip(LStrip(s))

\* s.rfind(" ", lo, hi): the highest index in [lo, hi) holding a space, or -1
RFindSpace(s, lo, hi) ==
    LET hits == {i \in lo..(Min(hi, Len(s)) - 1) : CharAt(s, i) = " "}
    IN  IF hits = {} THEN -1 ELSE CHOOSE i \in hits : \A j \in hits : j <= i

(* --------------------------- the chunker ------------------------------- *)
\* faulty variant of ChunkEnd: rfind searches one position too far
ChunkEndWide(content, start, chunk_size) ==
    LET end == Min(start + chunk_size, Len(content))
    IN  IF end < Len(content)
        THEN LET last_space == RFindSpace(content, start, end + 2)
             IN  IF last_space > start THEN last_space + 1 ELSE end
        ELSE end

\* faulty variant of ChunkEnd: the space at the cut point itself is not seen
ChunkEndNarrow(content, start, chunk_size) ==
    LET end == Min(start + chunk_size, Len(content))
    IN  IF end < Len(content)
        THEN LET last_space == RFindSpace(content, start, end)
             IN  IF last_space > start THEN last_space + 1 ELSE end
        ELSE end

\* faulty variant of ChunkEnd: the cut is put on the space, not after it
ChunkEndOnSpace(content, start, chunk_size) ==
    LET end == Min(start + chunk_size, Len(content))
    IN  IF end < Len(content)
        THEN LET last_space == RFindSpace(content, start, end + 1)
             IN  IF last_space >= start THEN last_space ELSE end
        ELSE end

\* transcript_service.py:31-36, the end of the chunk that begins at start
ChunkEnd(content, start, chunk_size) ==
    LET end == Min(start + chunk_size, Len(content))
    IN  IF end < Len(content)
        THEN LET last_space == RFindSpace(content, start, end + 1)
             IN  IF last_space > start THEN last_space + 1 ELSE end
        ELSE end

\* faulty variant of ChunkAt: the slice stops one character early
ChunkAtShort(content, start, end) == Strip(Slice(content, start, end - 1))

\* transcript_service.py:37, the chunk appended for [start, end)
ChunkAt(content, start, end) == Strip(Slice(content, start, end))

\* faulty variant of DropEmpty: nothing is dropped
DropNothing(chunks) == chunks

\* transcript_service.py:39, [c for c in chunks if c]
DropEmpty(chunks) == SelectSeq(chunks, LAMBDA c : c # <<>>)

RECURSIVE SplitLoop(_, _, _, _)
SplitLoop(content, start, chunk_size, chunks) ==
    IF start < Len(content)
    THEN LET end == ChunkEnd(content, start, chunk_size)
         IN  SplitLoop(content, end, chunk_size,
                       Append(chunks, ChunkAt(content, start, end)))
    ELSE DropEmpty(chunks)

\* _split_into_chunks(content, chunk_size) as one function
SplitIntoChunks(content, chunk_size) ==
    LET stripped == Strip(content)
    IN  IF stripped = <<>> THEN <<>>
        ELSE SplitLoop(stripped, 0, chunk_size, <<>>)

(* ------------------------- chunk size tiers ---------------------------- *)
\* transcript_service.py:7-11
ChunkSizeByLength == << <<4000, 2000>>, <<8000, 4000>>, <<15000, 8000>> >>

\* transcript_service.py:12
DefaultChunkSize == 8000

\* faulty variant of TierLoop: a tier's max_length is taken as exclusive
RECURSIVE TierLoopExclusive(_, _)
TierLoopExclusive(tiers, length) ==
    IF tiers = <<>> THEN DefaultChunkSize
    ELSE IF length < Head(tiers)[1] THEN Head(tiers)[2]
    ELSE TierLoopExclusive(Tail(tiers), length)

\* transcript_service.py:17-20, the for loop over the tiers
RECURSIVE TierLoop(_, _)
TierLoop(tiers, length) ==
    IF tiers = <<>> THEN DefaultChunkSize
    ELSE IF length <= Head(tiers)[1] THEN Head(tiers)[2]
    ELSE TierLoop(Tail(tiers), length)

\* _chunk_size_for_length
ChunkSizeForLength(length) == TierLoop(ChunkSizeByLength, length)

(* ------------------------- the ORM classes ----------------------------- *)
\* The attributes models.py declares on each class (columns, relationships
\* and backrefs).  SQLAlchemy's declarative constructor raises TypeError for
\* a keyword that is no attribute of the class, and reading an attribute the
\* class does not declare raises AttributeError.
UserAttrs == {"id", "username", "collections"}

CollectionAttrs ==
    {"id", "name", "description", "user_id", "created_at", "videos", "user"}

VideoAttrs ==
    {"id", "youtube_id", "title", "description", "collection_id", "created_at",
     "transcripts", "collection"}

TranscriptAttrs == {"id", "video_id", "content", "created_at", "video"}

\* Model(**kwargs) constructs without TypeError
Constructs(attrs, kwargs) == kwargs \subseteq attrs

(* ---------------------------- table helpers ---------------------------- *)
\* None, as the result of a user lookup
NoUser == [id |-> 0, username |-> <<>>]

Ids(rows) == {r.id : r \in rows}

\* faulty variant of GetById: any stored row will do
GetByIdAny(rows, id, none) ==
    IF rows = {} THEN none ELSE CHOOSE r \in rows : \A q \in rows : r.id <= q.id

\* Query.get(id) / filter_by(id=id).first()
GetById(rows, id, none) ==
    IF \E r \in rows : r.id = id THEN CHOOSE r \in rows : r.id = id ELSE none

\* the id SQLite gives a new row of an INTEGER PRIMARY KEY table: max + 1
NextId(rows) ==
    IF rows = {} THEN 1
    ELSE (CHOOSE m \in Ids(rows) : \A i \in Ids(rows) : i <= m) + 1

\* faulty variant of GetUserById: the first stored user, whatever the id
GetUserFirst(us, user_id) ==
    IF us = {} THEN NoUser
    ELSE CHOOSE u \in us : \A v \in us : u.id <= v.id

\* UserService.get_user_by_id
GetUserById(us, user_id) == GetById(us, user_id, NoUser)

\* UserService.username_exists / get_user_by_username: an exact match
UsernameExists(us, username) == \E u \in us : u.username = username

\* faulty variant of VideoExists: the video is not looked up
VideoExistsAlways(vs, video_id) == TRUE

\* VideoService.video_exists
VideoExists(vs, video_id) == \E v \in vs : v.id = video_id

\* UserService.user_exists
UserExists(us, user_id) == \E u \in us : u.id = user_id

\* faulty variant of CollectionExists: every id is taken for a stored one
CollectionExistsAlways(cs, collection_id) == TRUE

\* CollectionService.collection_exists
CollectionExists(cs, collection_id) == \E c \in cs : c.id = collection_id

\* None, as the result of a collection or video lookup
NoRow == [id |-> 0]

\* faulty variant of YoutubeIdExists: the column is not unique
YoutubeIdExistsNever(vs, youtube_id) == FALSE

\* models.py:29, unique=True: a stored video already has this youtube_id
YoutubeIdExists(vs, youtube_id) == \E v \in vs : v.youtube_id = youtube_id

(* ------------------------ requests and responses ----------------------- *)
Workers == {1, 2}

NoToken == [kind |-> "none", sub |-> 0]

\* the Authorization header: absent, a token that fails verification, or a
\* token signed with JWT_SECRET_KEY whose subject is sub
Tokens ==
    {NoToken, [kind |-> "invalid", sub |-> 0]}
        \cup {[kind |-> "valid", sub |-> i] : i \in 1..MaxId}

\* the JSON body; an absent or empty field is <<>> (0 for an id), both
\* falsy in Python; NoBody is the empty JSON object
NoBody ==
    [username |-> <<>>, password |-> <<>>, video_id |-> 0, content |-> <<>>,
     name |-> <<>>, user_id |-> 0, youtube_id |-> <<>>, title |-> <<>>,
     collection_id |-> 0, description |-> <<>>]

UserBodies ==
    {[NoBody EXCEPT !.username = u, !.password = p] :
        u \in {<<>>, <<" ">>, <<"a">>, <<"c">>}, p \in {<<>>, <<"p">>}}

TranscriptBodies ==
    {[NoBody EXCEPT !.video_id = v, !.content = c] :
        v \in 0..MaxId, c \in {<<>>, <<" ">>, <<"a", " ", "b">>}}

CollectionBodies ==
    {[NoBody EXCEPT !.name = n, !.user_id = u] :
        n \in {<<>>, <<" ">>, <<"a">>}, u \in 0..MaxId}

VideoBodies ==
    {[NoBody EXCEPT !.youtube_id = y, !.title = t, !.collection_id = c] :
        y \in {<<>>, <<" ">>, <<"a", " ">>, <<"b">>}, t \in {<<>>, <<" ">>, <<"a">>},
        c \in 0..MaxId}

\* the body of PUT /videos/<id>: here <<>> and 0 stand for a field that is
\* absent (None), which update_video tells from a blank one
VideoUpdateBodies ==
    {[NoBody EXCEPT !.title = t, !.collection_id = c, !.description = d] :
        t \in {<<>>, <<" ">>, <<"b">>}, c \in 0..MaxId,
        d \in {<<>>, <<" ">>, <<"b">>}}

Req(method, path, token, body) ==
    [method |-> method, path |-> path, token |-> token, body |-> body]

\* the requests that match a route of the blueprint, all under /api
\* (url_prefix of app/__init__.py:32)
Requests ==
    {Req("GET", <<"api", "users">>, t, NoBody) : t \in Tokens}
    \cup {Req("POST", <<"api", "users">>, t, b) : t \in Tokens, b \in UserBodies}
    \cup {Req("DELETE", <<"api", "users", i>>, t, NoBody) :
            t \in Tokens, i \in 1..MaxId}
    \cup {Req("POST", <<"api", "login">>, t, b) : t \in Tokens, b \in UserBodies}
    \cup {Req("POST", <<"api", "logout">>, t, NoBody) : t \in Tokens}
    \cup {Req("POST", <<"api", "transcripts">>, t, b) :
            t \in Tokens, b \in TranscriptBodies}
    \cup {Req("DELETE", <<"api", "transcripts", i>>, t, NoBody) :
            t \in Tokens, i \in 1..MaxId}

\* the requests to the collection and video routes
LibraryRequests ==
    {Req("POST", <<"api", "collections">>, t, b) :
            t \in Tokens, b \in CollectionBodies}
    \cup {Req("DELETE", <<"api", "collections", i>>, t, NoBody) :
            t \in Tokens, i \in 1..MaxId}
    \cup {Req("POST", <<"api", "videos">>, t, b) :
            t \in Tokens, b \in VideoBodies}
    \cup {Req("PUT", <<"api", "videos", i>>, t, b) :
            t \in Tokens, i \in 1..MaxId, b \in VideoUpdateBodies}
    \cup {Req("DELETE", <<"api", "videos", i>>, t, NoBody) :
            t \in Tokens, i \in 1..MaxId}

NoReq == Req("", <<>>, NoToken, NoBody)

\* request.current_user / request.current_user_id before the gate sets them
NoCtx == [current_user |-> NoUser, current_user_id |-> 0]

Idle == [pc |-> "idle", req |-> NoReq, status |-> 0, ctx |-> NoCtx]

\* the handler a request is routed to
Route(r) ==
    LET p == r.path
    IN  CASE Len(p) = 2 /\ p[2] = "users" /\ r.method = "GET" -> "get_all_users"
          [] Len(p) = 2 /\ p[2] = "users" /\ r.method = "POST" -> "create_user"
          [] Len(p) = 3 /\ p[2] = "users" /\ r.method = "DELETE" -> "delete_user"
          [] Len(p) = 2 /\ p[2] = "login" /\ r.method = "POST" -> "login"
          [] Len(p) = 2 /\ p[2] = "logout" /\ r.method = "POST" -> "logout"
          [] Len(p) = 2 /\ p[2] = "transcripts" /\ r.method = "POST"
                -> "create_transcript"
          [] Len(p) = 3 /\ p[2] = "transcripts" /\ r.method = "DELETE"
                -> "delete_transcript"
          [] Len(p) = 2 /\ p[2] = "collections" /\ r.method = "POST"
                -> "create_collection"
          [] Len(p) = 3 /\ p[2] = "collections" /\ r.method = "DELETE"
                -> "delete_collection"
          [] Len(p) = 2 /\ p[2] = "videos" /\ r.method = "POST" -> "create_video"
          [] Len(p) = 3 /\ p[2] = "videos" /\ r.method = "PUT" -> "update_video"
          [] Len(p) = 3 /\ p[2] = "videos" /\ r.method = "DELETE" -> "delete_video"
          [] OTHER -> "none"

(* ----------------------------- the auth gate --------------------------- *)
\* app/__init__.py:29
ExemptRoutes == << <<"login">>, <<"logout">>, <<"users">> >>

\* faulty variant of StripApiPrefix: the prefix is left on the path
StripApiPrefixKept(path) == path

\* auth.py:58-63: drop the /api prefix; the path keeps its leading slash
StripApiPrefix(path) ==
    IF path # <<>> /\ Head(path) = "api" THEN Tail(path) ELSE path

\* faulty variant of ExemptLoop: a sub-path of an exempt route is exempt too
RECURSIVE ExemptLoopPrefix(_, _, _)
ExemptLoopPrefix(routes, path, method) ==
    IF routes = <<>> THEN FALSE
    ELSE IF Len(path) >= Len(Head(routes))
            /\ SubSeq(path, 1, Len(Head(routes))) = Head(routes) THEN TRUE
    ELSE IF path = <<"users">> /\ method = "POST" THEN TRUE
    ELSE ExemptLoopPrefix(Tail(routes), path, method)

\* auth.py:67-75: the for loop over exempt_routes
RECURSIVE ExemptLoop(_, _, _)
ExemptLoop(routes, path, method) ==
    IF routes = <<>> THEN FALSE
    ELSE IF path = Head(routes) THEN TRUE
    ELSE IF path = <<"users">> /\ method = "POST" THEN TRUE
    ELSE ExemptLoop(Tail(routes), path, method)

\* auth.py:49-50: the exemption list require_auth closes over; exempt_routes
\* the argument is a list of routes or None
RoutesArg(list) == [none |-> FALSE, list |-> list]

NoRoutes == [none |-> TRUE, list |-> <<>>]

DefaultExemptRoutes == << <<"login">>, <<"logout">> >>

SetupAuthMiddleware(exempt_routes_arg) ==
    IF exempt_routes_arg.none THEN DefaultExemptRoutes
    ELSE exempt_routes_arg.list

\* auth.py:54-75: is_exempt for the request r under the list routes
IsExempt(routes, r) == ExemptLoop(routes, StripApiPrefix(r.path), r.method)

\* verify_jwt_in_request() returns instead of raising
VerifyJwt(token) == token.kind = "valid"

\* faulty variant of UserMissing: the lookup result is not checked
UserMissingIgnored(user) == FALSE

\* auth.py:87, "if not user"
UserMissing(user) == user = NoUser

\* auth.py:52-103, require_auth: the worker record the gate leaves behind
AuthGate(routes, r, us) ==
    IF IsExempt(routes, r)
    THEN [pc |-> "route", req |-> r, status |-> 0, ctx |-> NoCtx]
    ELSE IF ~VerifyJwt(r.token)
    THEN [pc |-> "done", req |-> r, status |-> 401, ctx |-> NoCtx]
    ELSE LET current_user_id == r.token.sub
             user == GetUserById(us, current_user_id)
         IN  IF UserMissing(user)
             THEN [pc |-> "done", req |-> r, status |-> 401, ctx |-> NoCtx]
             ELSE [pc |-> "route", req |-> r, status |-> 0,
                   ctx |-> [current_user |-> user,
                            current_user_id |-> current_user_id]]

(* --------------------------- database seeds ---------------------------- *)
\* The application opens the database file that config.py names; what it
\* holds at start-up is not decided by the application.  Two start states
\* are explored: the empty database and a small populated one.  Rows carry
\* the columns the handlers modelled here read; created_at and the optional
\* description column of collections are left out.
SeedUsers ==
    {[id |-> 1, username |-> <<"a">>], [id |-> 2, username |-> <<"b">>]}

SeedCollections ==
    {[id |-> 1, name |-> <<"a">>, user_id |-> 1],
     [id |-> 2, name |-> <<"b">>, user_id |-> 1]}

SeedVideos ==
    {[id |-> 1, youtube_id |-> <<"a">>, title |-> <<"a">>,
      description |-> <<"a">>, collection_id |-> 1]}

\* two chunks of video 1, with the chunk_index that create_transcript
\* (transcript_service.py:78-82) gives the rows it builds
SeedTranscripts ==
    {[id |-> 1, video_id |-> 1, content |-> <<"a">>, chunk_index |-> 0],
     [id |-> 2, video_id |-> 1, content |-> <<"b">>, chunk_index |-> 1]}

(* ----------------------------- state ----------------------------------- *)
VARIABLES
    sp_pc,        \* _split_into_chunks: "call", "loop" or "done"
    sp_arg,       \* the content argument as passed
    sp_size,      \* the chunk_size argument
    sp_content,   \* the local content after line 25
    sp_start,     \* the local start
    sp_chunks,    \* the local chunks
    sp_result,    \* the returned list
    users,        \* table users
    collections,  \* table collections
    videos,       \* table videos
    transcripts,  \* table transcripts
    wk,           \* per request thread: the request in hand and its progress
    deleted_users, \* history: ids of the users delete_user has removed
    tier_pc,      \* _chunk_size_for_length: "call" or "done"
    tier_length,  \* the length argument
    tier_size,    \* the returned chunk size
    exempt_routes, \* the exemption list the auth gate was set up with
    pending_delete \* per request thread: ids of the transcripts its session
                  \* has deleted and not yet committed

splitVars == <<sp_pc, sp_arg, sp_size, sp_content, sp_start, sp_chunks, sp_result>>

dbVars == <<users, collections, videos, transcripts>>

svcVars == <<users, collections, videos, transcripts, wk, deleted_users>>

tierVars == <<tier_pc, tier_length, tier_size>>

gateVars == <<exempt_routes>>

sessVars == <<pending_delete>>

vars == <<sp_pc, sp_arg, sp_size, sp_content, sp_start, sp_chunks, sp_result,
          users, collections, videos, transcripts, wk, deleted_users,
          tier_pc, tier_length, tier_size, exempt_routes, pending_delete>>

\* no session holds an uncommitted DELETE
NoPending == pending_delete = [w \in Workers |-> {}]

\* app/__init__.py:29: the gate as the application sets it up
AppGate == exempt_routes = SetupAuthMiddleware(RoutesArg(ExemptRoutes))

\* no call of _chunk_size_for_length is under way
TierIdle == tier_pc = "done" /\ tier_length = 0 /\ tier_size = 0

\* no call of _split_into_chunks is under way
SplitIdle ==
    /\ sp_pc = "done" /\ sp_arg = <<>> /\ sp_size = 1 /\ sp_content = <<>>
    /\ sp_start = 0 /\ sp_chunks = <<>> /\ sp_result = <<>>

(* ------------------- _split_into_chunks step by step ------------------- *)
InitSplit ==
    /\ sp_pc = "call"
    /\ sp_arg \in Strings(MaxLen)
    /\ sp_size \in 1..MaxChunkSize
    /\ sp_content = <<>>
    /\ sp_start = 0
    /\ sp_chunks = <<>>
    /\ sp_result = <<>>
    /\ users = {} /\ collections = {} /\ videos = {} /\ transcripts = {}
    /\ wk = [w \in Workers |-> Idle]
    /\ deleted_users = {}
    /\ TierIdle
    /\ AppGate
    /\ NoPending

\* lines 25-29: strip, return [] for blank content, else enter the loop
SplitEnter ==
    /\ sp_pc = "call"
    /\ sp_content' = Strip(sp_arg)
    /\ sp_pc' = IF Strip(sp_arg) = <<>> THEN "done" ELSE "loop"
    /\ UNCHANGED <<sp_arg, sp_size, sp_start, sp_chunks, sp_result>>
    /\ UNCHANGED <<svcVars, tierVars, gateVars, sessVars>>

\* lines 30-38: one iteration of the while loop
SplitIterate ==
    /\ sp_pc = "loop"
    /\ sp_start < Len(sp_content)
    /\ LET end == ChunkEnd(sp_content, sp_start, sp_size)
       IN  /\ sp_chunks' = Append(sp_chunks, ChunkAt(sp_content, sp_start, end))
           /\ sp_start' = end
    /\ UNCHANGED <<sp_pc, sp_arg, sp_size, sp_content, sp_result>>
    /\ UNCHANGED <<svcVars, tierVars, gateVars, sessVars>>

\* line 39: the loop is over, return the non-empty chunks
SplitReturn ==
    /\ sp_pc = "loop"
    /\ ~(sp_start < Len(sp_content))
    /\ sp_result' = DropEmpty(sp_chunks)
    /\ sp_pc' = "done"
    /\ UNCHANGED <<sp_arg, sp_size, sp_content, sp_start, sp_chunks>>
    /\ UNCHANGED <<svcVars, tierVars, gateVars, sessVars>>

NextSplit == SplitEnter \/ SplitIterate \/ SplitReturn

SpecSplit == InitSplit /\ [][NextSplit]_vars

\* calls on texts of words and spaces: one letter and the space, which
\* allows longer inputs than the four characters of Chars do
InitSplitWords ==
    /\ sp_pc = "call"
    /\ sp_arg \in UNION {[1..k -> {"a", " "}] : k \in 0..MaxWordsLen}
    /\ sp_size \in 1..MaxChunkSize
    /\ sp_content = <<>>
    /\ sp_start = 0
    /\ sp_chunks = <<>>
    /\ sp_result = <<>>
    /\ users = {} /\ collections = {} /\ videos = {} /\ transcripts = {}
    /\ wk = [w \in Workers |-> Idle]
    /\ deleted_users = {}
    /\ TierIdle
    /\ AppGate
    /\ NoPending

SpecSplitWords == InitSplitWords /\ [][NextSplit]_vars

\* a call, once made, runs on until it returns
SpecSplitFair == SpecSplit /\ WF_vars(NextSplit)

(* --------------------- _chunk_size_for_length -------------------------- *)
InitTier ==
    /\ tier_pc = "call"
    /\ tier_length \in 0..MaxTextLength
    /\ tier_size = 0
    /\ SplitIdle
    /\ AppGate
    /\ NoPending
    /\ users = {} /\ collections = {} /\ videos = {} /\ transcripts = {}
    /\ wk = [w \in Workers |-> Idle]
    /\ deleted_users = {}

\* transcript_service.py:15-20: the call returns the chunk size
TierCall ==
    /\ tier_pc = "call"
    /\ tier_size' = ChunkSizeForLength(tier_length)
    /\ tier_pc' = "done"
    /\ UNCHANGED <<tier_length, splitVars, svcVars, gateVars, sessVars>>

NextTier == TierCall

SpecTier == InitTier /\ [][NextTier]_vars

(* ------------------------- the request threads ------------------------- *)
\* the thread's request is answered with status
Done(w, status) ==
    [wk EXCEPT ![w] = [@ EXCEPT !.pc = "done", !.status = status]]

AtRoute(w, name) == wk[w].pc = "route" /\ Route(wk[w].req) = name

InitEmpty ==
    /\ users = {} /\ collections = {} /\ videos = {} /\ transcripts = {}

InitSeeded ==
    /\ users = SeedUsers
    /\ collections = SeedCollections
    /\ videos = SeedVideos
    /\ transcripts = SeedTranscripts

Init ==
    /\ InitEmpty \/ InitSeeded
    /\ wk = [w \in Workers |-> Idle]
    /\ deleted_users = {}
    /\ SplitIdle
    /\ TierIdle
    /\ AppGate
    /\ NoPending

\* before_request: auth.py:52-103
RequireAuth(w, r) ==
    /\ wk[w].pc \in {"idle", "done"}
    /\ wk' = [wk EXCEPT ![w] = AuthGate(exempt_routes, r, users)]
    /\ UNCHANGED <<dbVars, deleted_users, splitVars, tierVars, gateVars, sessVars>>

\* GET /users, users.py:8-39
GetAllUsers(w) ==
    /\ AtRoute(w, "get_all_users")
    /\ wk' = Done(w, 200)
    /\ UNCHANGED <<dbVars, deleted_users, splitVars, tierVars, gateVars, sessVars>>

\* POST /users, users.py:42-85: the checks made before UserService.create_user
CreateUser(w) ==
    /\ AtRoute(w, "create_user")
    /\ LET data == wk[w].req.body
       IN  wk' =
            IF data = NoBody THEN Done(w, 400)
            ELSE IF data.username = <<>> THEN Done(w, 400)
            ELSE IF data.password = <<>> THEN Done(w, 400)
            ELSE IF UsernameExists(users, data.username)
                 THEN Done(w, 409)
            ELSE [wk EXCEPT ![w] = [@ EXCEPT !.pc = "insert"]]
    /\ UNCHANGED <<dbVars, deleted_users, splitVars, tierVars, gateVars, sessVars>>

\* POST /users, users.py:85-107 with UserService.create_user,
\* user_service.py:24-39
CreateUserInsert(w) ==
    /\ wk[w].pc = "insert"
    /\ Route(wk[w].req) = "create_user"
    /\ LET data == wk[w].req.body
           username == Strip(data.username)
       IN  IF username = <<>> \/ data.password = <<>>
           THEN \* ValueError
                /\ wk' = Done(w, 400)
                /\ UNCHANGED users
           ELSE IF ~Constructs(UserAttrs, {"username", "password"})
           THEN \* TypeError, caught by "except Exception"
                /\ wk' = Done(w, 500)
                /\ UNCHANGED users
           ELSE IF UsernameExists(users, username)
           THEN \* IntegrityError on the unique column
                /\ wk' = Done(w, 409)
                /\ UNCHANGED users
           ELSE /\ users' = users \cup
                        {[id |-> NextId(users), username |-> username]}
                /\ wk' = Done(w, 201)
    /\ UNCHANGED <<collections, videos, transcripts, deleted_users, splitVars, tierVars, gateVars, sessVars>>

\* DELETE /users/<id>, users.py:110-138 with UserService.delete_user,
\* user_service.py:84-90
DeleteUser(w) ==
    /\ AtRoute(w, "delete_user")
    /\ LET user_id == wk[w].req.path[3]
           user == GetUserById(users, user_id)
       IN  IF user = NoUser
           THEN /\ wk' = Done(w, 404)
                /\ UNCHANGED <<users, deleted_users>>
           ELSE IF \E c \in collections : c.user_id = user_id
           THEN \* the relationship has no delete cascade: the flush sets the
                \* collections' user_id to NULL, a NOT NULL column:
                \* IntegrityError, caught by "except Exception"
                /\ wk' = Done(w, 500)
                /\ UNCHANGED <<users, deleted_users>>
           ELSE /\ users' = users \ {user}
                /\ deleted_users' = deleted_users \cup {user_id}
                /\ wk' = Done(w, 200)
    /\ UNCHANGED <<collections, videos, transcripts, splitVars, tierVars, gateVars, sessVars>>

\* POST /login, users.py:141-199 with UserService.login, user_service.py:143-153
Login(w) ==
    /\ AtRoute(w, "login")
    /\ LET data == wk[w].req.body
           user == IF UsernameExists(users, data.username)
                   THEN CHOOSE u \in users : u.username = data.username
                   ELSE NoUser
       IN  wk' =
            IF data = NoBody THEN Done(w, 400)
            ELSE IF data.username = <<>> THEN Done(w, 400)
            ELSE IF data.password = <<>> THEN Done(w, 400)
            ELSE IF user = NoUser THEN Done(w, 401)
            ELSE IF "password" \notin UserAttrs
                 THEN \* user.password: AttributeError
                      Done(w, 500)
            ELSE IF user.password # data.password THEN Done(w, 401)
            ELSE Done(w, 200)
    /\ UNCHANGED <<dbVars, deleted_users, splitVars, tierVars, gateVars, sessVars>>

\* faulty variant of Logout: a successful logout removes the token's user
LogoutRevoking(w) ==
    /\ AtRoute(w, "logout")
    /\ wk' = CASE wk[w].req.token.kind = "none" -> Done(w, 401)
               [] wk[w].req.token.kind = "invalid" -> Done(w, 422)
               [] OTHER -> Done(w, 200)
    /\ users' = IF wk[w].req.token.kind = "valid"
                THEN {u \in users : u.id # wk[w].req.token.sub}
                ELSE users
    /\ UNCHANGED <<collections, videos, transcripts, deleted_users,
                   splitVars, tierVars, gateVars, sessVars>>

\* POST /logout, users.py:202-229: @jwt_required() answers a missing token
\* with 401 and an undecodable one with 422 before the body runs
Logout(w) ==
    /\ AtRoute(w, "logout")
    /\ wk' = CASE wk[w].req.token.kind = "none" -> Done(w, 401)
               [] wk[w].req.token.kind = "invalid" -> Done(w, 422)
               [] OTHER -> Done(w, 200)
    /\ UNCHANGED <<dbVars, deleted_users, splitVars, tierVars, gateVars, sessVars>>

\* faulty variant of RolledBack: the pending statements take effect
RolledBackKept(committed, pending) == pending

\* a table after a request that ended without db.session.commit(): of the
\* statements issued before the exception (the DELETE of
\* transcript_service.py:74) nothing is stored
RolledBack(committed, pending) == committed

\* the rows create_transcript adds, transcript_service.py:76-84
NewTranscripts(rows, video_id, chunk_texts) ==
    {[id |-> NextId(rows) + i - 1, video_id |-> video_id,
      content |-> chunk_texts[i], chunk_index |-> i - 1] :
        i \in 1..Len(chunk_texts)}

\* POST /transcripts, transcripts.py:51-115 with
\* TranscriptService.create_transcript, transcript_service.py:63-86
CreateTranscript(w) ==
    /\ AtRoute(w, "create_transcript")
    /\ LET data == wk[w].req.body
           video_id == data.video_id
           text == Strip(data.content)
           size == ChunkSizeForLength(Len(text))
           chunk_texts == SplitIntoChunks(text, size)
           kept == {t \in transcripts : t.video_id # video_id}
       IN  IF data = NoBody \/ video_id = 0 \/ data.content = <<>>
           THEN /\ wk' = Done(w, 400)
                /\ UNCHANGED transcripts
           ELSE IF text = <<>> \/ ~VideoExists(videos, video_id)
           THEN \* ValueError
                /\ wk' = Done(w, 400)
                /\ UNCHANGED transcripts
           ELSE IF chunk_texts # <<>>
                   /\ ~Constructs(TranscriptAttrs,
                                  {"video_id", "content", "chunk_index"})
           THEN \* TypeError before the commit: the pending DELETE is rolled
                \* back when the session is removed
                /\ wk' = Done(w, 500)
                /\ transcripts' = RolledBack(transcripts, kept)
           ELSE \* committed; the route then reads .id of the returned list:
                \* AttributeError, caught by "except Exception"
                /\ transcripts' =
                        kept \cup NewTranscripts(kept, video_id, chunk_texts)
                /\ wk' = Done(w, 500)
    /\ UNCHANGED <<users, collections, videos, deleted_users, splitVars, tierVars, gateVars, sessVars>>

\* POST /transcripts when other threads run between its statements: the
\* checks of the route and of create_transcript, then the bulk DELETE of
\* transcript_service.py:74, which stays uncommitted in the thread's session
CreateTranscriptDelete(w) ==
    /\ AtRoute(w, "create_transcript")
    /\ LET data == wk[w].req.body
           video_id == data.video_id
           text == Strip(data.content)
       IN  IF data = NoBody \/ video_id = 0 \/ data.content = <<>>
           THEN /\ wk' = Done(w, 400)
                /\ UNCHANGED pending_delete
           ELSE IF text = <<>> \/ ~VideoExists(videos, video_id)
           THEN /\ wk' = Done(w, 400)
                /\ UNCHANGED pending_delete
           ELSE /\ wk' = [wk EXCEPT ![w] = [@ EXCEPT !.pc = "replace"]]
                /\ pending_delete' =
                        [pending_delete EXCEPT
                            ![w] = Ids({t \in transcripts : t.video_id = video_id})]
    /\ UNCHANGED <<dbVars, deleted_users, splitVars, tierVars, gateVars>>

\* transcript_service.py:76-86: the constructor calls, then the commit of
\* the DELETE and of the new rows; an exception ends the request with 500
\* and the session's DELETE is rolled back
CreateTranscriptAdd(w) ==
    /\ wk[w].pc = "replace"
    /\ LET data == wk[w].req.body
           video_id == data.video_id
           text == Strip(data.content)
           chunk_texts == SplitIntoChunks(text, ChunkSizeForLength(Len(text)))
           kept == {t \in transcripts : t.id \notin pending_delete[w]}
       IN  IF chunk_texts # <<>>
              /\ ~Constructs(TranscriptAttrs,
                             {"video_id", "content", "chunk_index"})
           THEN /\ wk' = Done(w, 500)
                /\ transcripts' = RolledBack(transcripts, kept)
           ELSE /\ transcripts' =
                        kept \cup NewTranscripts(kept, video_id, chunk_texts)
                /\ wk' = Done(w, 500)
    /\ pending_delete' = [pending_delete EXCEPT ![w] = {}]
    /\ UNCHANGED <<users, collections, videos, deleted_users, splitVars,
                   tierVars, gateVars>>

\* DELETE /transcripts/<id>, transcripts.py:184-213 with
\* TranscriptService.delete_transcript, transcript_service.py:140-146
DeleteTranscript(w) ==
    /\ AtRoute(w, "delete_transcript")
    /\ LET transcript_id == wk[w].req.path[3]
       IN  IF transcript_id \notin Ids(transcripts)
           THEN /\ wk' = Done(w, 404)
                /\ UNCHANGED transcripts
           ELSE /\ transcripts' = {t \in transcripts : t.id # transcript_id}
                /\ wk' = Done(w, 200)
    /\ UNCHANGED <<users, collections, videos, deleted_users, splitVars, tierVars, gateVars, sessVars>>

\* POST /collections, collections.py:50-117 with
\* CollectionService.create_collection, collection_service.py:24-37
CreateCollection(w) ==
    /\ AtRoute(w, "create_collection")
    /\ LET data == wk[w].req.body
           name == Strip(data.name)
       IN  IF data = NoBody \/ data.name = <<>> \/ data.user_id = 0
           THEN /\ wk' = Done(w, 400)
                /\ UNCHANGED collections
           ELSE IF name = <<>> \/ ~UserExists(users, data.user_id)
           THEN \* ValueError
                /\ wk' = Done(w, 400)
                /\ UNCHANGED collections
           ELSE IF ~Constructs(CollectionAttrs, {"name", "user_id", "description"})
           THEN /\ wk' = Done(w, 500)
                /\ UNCHANGED collections
           ELSE /\ collections' = collections \cup
                        {[id |-> NextId(collections), name |-> name,
                          user_id |-> data.user_id]}
                /\ wk' = Done(w, 201)
    /\ UNCHANGED <<users, videos, transcripts, deleted_users, splitVars, tierVars, gateVars, sessVars>>

\* DELETE /collections/<id>, collections.py:155-183 with
\* CollectionService.delete_collection, collection_service.py:89-95
DeleteCollection(w) ==
    /\ AtRoute(w, "delete_collection")
    /\ LET collection_id == wk[w].req.path[3]
           collection == GetById(collections, collection_id, NoRow)
       IN  IF collection = NoRow
           THEN /\ wk' = Done(w, 404)
                /\ UNCHANGED collections
           ELSE IF \E v \in videos : v.collection_id = collection.id
           THEN \* no delete cascade: the flush sets the videos' collection_id
                \* to NULL, a NOT NULL column: IntegrityError
                /\ wk' = Done(w, 500)
                /\ UNCHANGED collections
           ELSE /\ collections' = collections \ {collection}
                /\ wk' = Done(w, 200)
    /\ UNCHANGED <<users, videos, transcripts, deleted_users, splitVars, tierVars, gateVars, sessVars>>

\* POST /videos, videos.py:53-131 with VideoService.create_video,
\* video_service.py:30-47
CreateVideo(w) ==
    /\ AtRoute(w, "create_video")
    /\ LET data == wk[w].req.body
           youtube_id == Strip(data.youtube_id)
           title == Strip(data.title)
           description == Strip(data.description)
       IN  IF \/ data = NoBody \/ data.youtube_id = <<>>
              \/ data.title = <<>> \/ data.collection_id = 0
           THEN /\ wk' = Done(w, 400)
                /\ UNCHANGED videos
           ELSE IF \/ youtube_id = <<>> \/ title = <<>>
                   \/ ~CollectionExists(collections, data.collection_id)
           THEN \* ValueError
                /\ wk' = Done(w, 400)
                /\ UNCHANGED videos
           ELSE IF ~Constructs(VideoAttrs, {"youtube_id", "title",
                                            "collection_id", "description"})
           THEN /\ wk' = Done(w, 500)
                /\ UNCHANGED videos
           ELSE IF YoutubeIdExists(videos, youtube_id)
           THEN \* IntegrityError at the commit
                /\ wk' = Done(w, 409)
                /\ UNCHANGED videos
           ELSE /\ videos' = videos \cup
                        {[id |-> NextId(videos), youtube_id |-> youtube_id,
                          title |-> title, description |-> description,
                          collection_id |-> data.collection_id]}
                /\ wk' = Done(w, 201)
    /\ UNCHANGED <<users, collections, transcripts, deleted_users, splitVars, tierVars, gateVars, sessVars>>

\* faulty variant of AssignVideoFields: every field is assigned, supplied
\* or not
AssignVideoFieldsAll(video, data) ==
    [video EXCEPT !.collection_id = data.collection_id,
                  !.title = Strip(data.title),
                  !.description = Strip(data.description)]

\* video_service.py:114-125: the assignments update_video makes to the
\* fields the request supplies; a blank description is stored as None
AssignVideoFields(video, data) ==
    LET moved == IF data.collection_id # 0
                 THEN [video EXCEPT !.collection_id = data.collection_id]
                 ELSE video
        titled == IF data.title # <<>>
                  THEN [moved EXCEPT !.title = Strip(data.title)]
                  ELSE moved
    IN  IF data.description # <<>>
        THEN [titled EXCEPT !.description = Strip(data.description)]
        ELSE titled

\* PUT /videos/<id>, videos.py:171-233 with VideoService.update_video,
\* video_service.py:110-128
UpdateVideo(w) ==
    /\ AtRoute(w, "update_video")
    /\ LET data == wk[w].req.body
           video == GetById(videos, wk[w].req.path[3], NoRow)
           updated == AssignVideoFields(video, data)
       IN  IF data = NoBody
           THEN /\ wk' = Done(w, 400)
                /\ UNCHANGED videos
           ELSE IF video = NoRow
           THEN /\ wk' = Done(w, 404)
                /\ UNCHANGED videos
           ELSE IF \/ /\ data.collection_id # 0
                      /\ ~CollectionExists(collections, data.collection_id)
                   \/ data.title # <<>> /\ Strip(data.title) = <<>>
           THEN \* ValueError before the commit; an assignment already made to
                \* video.collection_id goes with the session
                /\ wk' = Done(w, 400)
                /\ UNCHANGED videos
           ELSE /\ videos' = (videos \ {video}) \cup {updated}
                /\ wk' = Done(w, 200)
    /\ UNCHANGED <<users, collections, transcripts, deleted_users, splitVars, tierVars, gateVars, sessVars>>

\* DELETE /videos/<id>, videos.py:236-265 with VideoService.delete_video,
\* video_service.py:141-147
DeleteVideo(w) ==
    /\ AtRoute(w, "delete_video")
    /\ LET video == GetById(videos, wk[w].req.path[3], NoRow)
       IN  IF video = NoRow
           THEN /\ wk' = Done(w, 404)
                /\ UNCHANGED videos
           ELSE IF \E t \in transcripts : t.video_id = video.id
           THEN \* no delete cascade: the flush sets the transcripts' video_id
                \* to NULL, a NOT NULL column: IntegrityError
                /\ wk' = Done(w, 500)
                /\ UNCHANGED videos
           ELSE /\ videos' = videos \ {video}
                /\ wk' = Done(w, 200)
    /\ UNCHANGED <<users, collections, transcripts, deleted_users, splitVars, tierVars, gateVars, sessVars>>

\* one request thread serving one request after another, on the user and
\* transcript routes
Next ==
    \/ \E r \in Requests : RequireAuth(1, r)
    \/ GetAllUsers(1)
    \/ CreateUser(1)
    \/ CreateUserInsert(1)
    \/ DeleteUser(1)
    \/ Login(1)
    \/ Logout(1)
    \/ CreateTranscript(1)
    \/ DeleteTranscript(1)

Spec == Init /\ [][Next]_vars

(* ------------------- one request on any stored data -------------------- *)
\* The databases a request can find: what deletions leave of the populated
\* start state.  Each keeps its foreign keys: a stored collection has its
\* user, a stored video its collection, a stored transcript its video.
Stores ==
    {db \in [users : SUBSET SeedUsers, collections : SUBSET SeedCollections,
             videos : SUBSET SeedVideos, transcripts : SUBSET SeedTranscripts] :
        /\ \A c \in db.collections : UserExists(db.users, c.user_id)
        /\ \A v \in db.videos : CollectionExists(db.collections, v.collection_id)
        /\ \A t \in db.transcripts : VideoExists(db.videos, t.video_id)}

InitStore ==
    /\ \E db \in Stores :
            /\ users = db.users
            /\ collections = db.collections
            /\ videos = db.videos
            /\ transcripts = db.transcripts
    /\ wk = [w \in Workers |-> Idle]
    /\ deleted_users = {}
    /\ SplitIdle
    /\ TierIdle
    /\ AppGate
    /\ NoPending

\* a request thread takes up its one request, to any route
StoreAccept(w) ==
    \E r \in Requests \cup LibraryRequests :
        wk[w].pc = "idle" /\ RequireAuth(w, r)

NextStore ==
    \/ StoreAccept(1)
    \/ GetAllUsers(1)
    \/ CreateUser(1)
    \/ CreateUserInsert(1)
    \/ DeleteUser(1)
    \/ Login(1)
    \/ Logout(1)
    \/ CreateTranscript(1)
    \/ DeleteTranscript(1)
    \/ CreateCollection(1)
    \/ DeleteCollection(1)
    \/ CreateVideo(1)
    \/ UpdateVideo(1)
    \/ DeleteVideo(1)

SpecStore == InitStore /\ [][NextStore]_vars

(* ------------ sequences of create, update and delete requests ---------- *)
\* the requests of one logged-in client (user 2) that create, update and
\* delete rows
SequenceRequests ==
    LET t == [kind |-> "valid", sub |-> 2]
    IN  {Req("DELETE", <<"api", res, i>>, t, NoBody) :
            res \in {"users", "collections", "videos", "transcripts"},
            i \in 1..MaxId}
        \cup {Req("POST", <<"api", "collections">>, t,
                  [NoBody EXCEPT !.name = <<"a">>, !.user_id = u]) :
                u \in 1..MaxId}
        \cup {Req("POST", <<"api", "videos">>, t,
                  [NoBody EXCEPT !.youtube_id = <<"b">>, !.title = <<"a">>,
                                 !.collection_id = c]) : c \in 1..MaxId}
        \cup {Req("PUT", <<"api", "videos", i>>, t,
                  [NoBody EXCEPT !.collection_id = c]) :
                i \in 1..MaxId, c \in 1..MaxId}

\* a request thread takes up its next request; ids stay within 1..MaxId
SequenceAccept(w) ==
    \E r \in SequenceRequests :
        /\ wk[w].pc = "idle"
        /\ Route(r) = "create_collection" => NextId(collections) <= MaxId
        /\ Route(r) = "create_video" => NextId(videos) <= MaxId
        /\ RequireAuth(w, r)

\* the response is sent and the thread waits for its next request
ThreadReturns(w) ==
    /\ wk[w].pc = "done"
    /\ wk' = [wk EXCEPT ![w] = Idle]
    /\ UNCHANGED <<dbVars, deleted_users, splitVars, tierVars, gateVars, sessVars>>

NextSequence ==
    \/ SequenceAccept(1)
    \/ ThreadReturns(1)
    \/ DeleteUser(1)
    \/ DeleteTranscript(1)
    \/ CreateCollection(1)
    \/ DeleteCollection(1)
    \/ CreateVideo(1)
    \/ UpdateVideo(1)
    \/ DeleteVideo(1)

SpecSequence == Init /\ [][NextSequence]_vars

(* ------------- the gate under any exemption list it is given ------------ *)
\* values of the exempt_routes argument of setup_auth_middleware
ExemptRoutesArgs ==
    {NoRoutes}
    \cup {RoutesArg(list) :
            list \in {<<>>, << <<"login">> >>, << <<"users">> >>,
                      << <<"transcripts">> >>, << <<"login">>, <<"logout">> >>,
                      << <<"login">>, <<"logout">>, <<"users">> >>,
                      << <<"videos">>, <<"collections">> >>}}

InitGate ==
    /\ \E a \in ExemptRoutesArgs : exempt_routes = SetupAuthMiddleware(a)
    /\ \E db \in Stores :
            /\ users = db.users
            /\ collections = db.collections
            /\ videos = db.videos
            /\ transcripts = db.transcripts
    /\ wk = [w \in Workers |-> Idle]
    /\ deleted_users = {}
    /\ SplitIdle
    /\ TierIdle
    /\ NoPending

\* the gate runs on one request, to any route
GateAccept(w) ==
    \E r \in Requests \cup LibraryRequests :
        wk[w].pc = "idle" /\ RequireAuth(w, r)

NextGate == GateAccept(1)

SpecGate == InitGate /\ [][NextGate]_vars

(* ------------------------ chunker properties --------------------------- *)
RECURSIVE Concat(_)
Concat(seqs) == IF seqs = <<>> THEN <<>> ELSE Head(seqs) \o Concat(Tail(seqs))

NoWhitespace(s) == SelectSeq(s, LAMBDA c : c \notin Whitespace)

\* the lengths of the maximal runs of non-whitespace characters of s
WordLengths(s) ==
    {j - i + 1 : <<i, j>> \in
        {p \in (1..Len(s)) \X (1..Len(s)) :
            /\ p[1] <= p[2]
            /\ \A k \in p[1]..p[2] : s[k] \notin Whitespace
            /\ (p[1] = 1 \/ s[p[1] - 1] \in Whitespace)
            /\ (p[2] = Len(s) \/ s[p[2] + 1] \in Whitespace)}}

\* C1: when _split_into_chunks has returned, the returned chunks concatenated
\* in order, whitespace removed, equal the input with whitespace removed.
C1_ContentPreserved ==
    sp_pc = "done" => NoWhitespace(Concat(sp_result)) = NoWhitespace(sp_arg)

\* C1 witness: a return of several chunks from an input with inner whitespace
C1_Witness ==
    /\ sp_pc = "done"
    /\ Len(sp_result) >= 2
    /\ \E i \in 1..Len(sp_content) : sp_content[i] \in Whitespace
    /\ {"a", "b"} \subseteq {sp_arg[i] : i \in 1..Len(sp_arg)}

\* C2: no returned chunk is longer than chunk_size, unless the content has a
\* single word longer than chunk_size.
C2_ChunkBounded ==
    sp_pc = "done" =>
        \A k \in 1..Len(sp_result) :
            \/ Len(sp_result[k]) <= sp_size
            \/ \E w \in WordLengths(sp_arg) : w > sp_size

\* C2 witness: the cut fell on a space right after chunk_size characters, so
\* the slice held chunk_size + 1 characters and the chunk has exactly chunk_size
C2_Witness ==
    /\ sp_pc = "done"
    /\ Len(sp_result) >= 2
    /\ Len(sp_result[1]) = sp_size
    /\ CharAt(sp_content, sp_size) = " "
    /\ \A w \in WordLengths(sp_arg) : w <= sp_size

\* C14: every iteration of the loop of _split_into_chunks moves start
\* strictly forward, and every call returns.
C14_SplitTerminates ==
    /\ [][SplitIterate => sp_start' > sp_start]_vars
    /\ <>(sp_pc = "done")

\* C14 witness: a call with chunk_size 1 returned after five iterations, one
\* of them over a word longer than chunk_size
C14_Witness ==
    /\ sp_pc = "done"
    /\ sp_size = 1
    /\ Len(sp_chunks) = MaxLen
    /\ \E w \in WordLengths(sp_arg) : w > 1

\* the positions of the spaces after start and at or before the cut point
SpacesUpTo(content, start, cut) ==
    {p \in (start + 1)..cut : CharAt(content, p) = " "}

\* C21: in an iteration whose tentative cut start + chunk_size is before
\* the end of the content: if there is a space after start and at or before
\* the cut, the chunk is the text from start up to the last such space
\* (trimmed) and the next chunk begins right after that space; if there is
\* none, the chunk is the chunk_size characters from start (trimmed).
C21_CutAtLastSpace ==
    [][(SplitIterate /\ sp_start + sp_size < Len(sp_content)) =>
        LET cut == sp_start + sp_size
            spaces == SpacesUpTo(sp_content, sp_start, cut)
            last == CHOOSE p \in spaces : \A q \in spaces : q <= p
        IN  IF spaces # {}
            THEN /\ sp_start' = last + 1
                 /\ sp_chunks' = Append(sp_chunks,
                        Strip(Slice(sp_content, sp_start, last)))
            ELSE /\ sp_start' = cut
                 /\ sp_chunks' = Append(sp_chunks,
                        Strip(Slice(sp_content, sp_start, cut)))
      ]_vars

\* C21 witness: with chunk_size 3 the first cut of "a " followed by a
\* three-letter word was moved back from position 3 to the space at 1
C21_Witness ==
    /\ sp_pc = "loop"
    /\ sp_size = 3
    /\ Len(sp_content) = 5
    /\ CharAt(sp_content, 1) = " "
    /\ \A p \in 2..4 : CharAt(sp_content, p) \notin Whitespace
    /\ sp_start = 2
    /\ sp_chunks = << <<CharAt(sp_content, 0)>> >>

\* the length of the maximal run of non-space characters around position p
WordLengthAt(content, p) ==
    LET first == CHOOSE i \in 0..p :
                    /\ \A k \in i..p : CharAt(content, k) # " "
                    /\ (i = 0 \/ CharAt(content, i - 1) = " ")
        last == CHOOSE j \in p..(Len(content) - 1) :
                    /\ \A k \in p..j : CharAt(content, k) # " "
                    /\ (j = Len(content) - 1 \/ CharAt(content, j + 1) = " ")
    IN  last - first + 1

\* C22: when an iteration ends a chunk between two non-space characters,
\* the word they belong to is longer than chunk_size.
C22_NoShortWordSplit ==
    [][(/\ SplitIterate
        /\ sp_start' < Len(sp_content)
        /\ CharAt(sp_content, sp_start' - 1) # " "
        /\ CharAt(sp_content, sp_start') # " ")
       => WordLengthAt(sp_content, sp_start') > sp_size
      ]_vars

\* C23: every returned chunk is non-empty and neither begins nor ends with
\* whitespace, and a content with a non-whitespace character yields at
\* least one chunk.
C23_ChunksTrimmedNonEmpty ==
    sp_pc = "done" =>
        /\ \A k \in 1..Len(sp_result) :
                /\ sp_result[k] # <<>>
                /\ Head(sp_result[k]) \notin Whitespace
                /\ sp_result[k][Len(sp_result[k])] \notin Whitespace
        /\ (\E i \in 1..Len(sp_arg) : sp_arg[i] \notin Whitespace)
                => Len(sp_result) >= 1

\* C23 witness: a call on content padded with whitespace returned two
\* chunks after dropping an empty one
C23_Witness ==
    /\ sp_pc = "done"
    /\ sp_arg # <<>> /\ Head(sp_arg) \in Whitespace
    /\ sp_arg[Len(sp_arg)] \in Whitespace
    /\ \E k \in 1..Len(sp_chunks) : sp_chunks[k] = <<>>
    /\ Len(sp_result) = 2

\* C24: under every exemption list the gate is set up with, the empty list
\* included, a POST to /users without a token passes the gate.
C24_RegistrationAlwaysOpen ==
    \A w \in Workers :
        (/\ wk[w].pc # "idle"
         /\ wk[w].req.method = "POST"
         /\ wk[w].req.path = <<"api", "users">>
         /\ wk[w].req.token = NoToken)
        => wk[w].pc = "route"

C26_ReplacementStaysAtomic ==
    (/\ \A w \in Workers :
            /\ wk[w].pc = "done" /\ wk[w].status # 401
            /\ Route(wk[w].req) = "create_transcript"
            /\ VideoExists(videos, wk[w].req.body.video_id)
            /\ Strip(wk[w].req.body.content) # <<>>
     /\ wk[1].req.body.video_id = wk[2].req.body.video_id)
    => LET stored == {t \in transcripts : t.video_id = wk[1].req.body.video_id}
       IN  /\ \A t1, t2 \in stored : t1.chunk_index = t2.chunk_index => t1 = t2
           /\ \E w \in Workers :
                LET text == Strip(wk[w].req.body.content)
                    chunk_texts ==
                        SplitIntoChunks(text, ChunkSizeForLength(Len(text)))
                IN  {<<t.chunk_index, t.content>> : t \in stored}
                    = {<<i - 1, chunk_texts[i]>> : i \in 1..Len(chunk_texts)}

\* C27: in every reachable state each stored collection's user_id names a
\* stored user, each video's collection_id a stored collection and each
\* transcript's video_id a stored video.
C27_ReferentialIntegrity ==
    /\ \A c \in collections : \E u \in users : u.id = c.user_id
    /\ \A v \in videos : \E c \in collections : c.id = v.collection_id
    /\ \A t \in transcripts : \E v \in videos : v.id = t.video_id

\* C27 witness: a video was moved into a collection created in the same
\* run (id 3), and the request to delete that collection was then answered
\* 500
C27_Witness ==
    /\ wk[1].pc = "done" /\ wk[1].status = 500
    /\ wk[1].req.method = "DELETE"
    /\ wk[1].req.path = <<"api", "collections", 3>>
    /\ \E v \in videos : v.id = 1 /\ v.collection_id = 3
    /\ \E c \in collections : c.id = 3

\* C15: a returned chunk size is 2000 for a length up to 4000, 4000 up to
\* 8000, 8000 up to 15000 and 8000 beyond, and is not smaller than the chunk
\* size of the length one less.
C15_TierOfLength ==
    tier_pc = "done" =>
        /\ tier_size = (IF tier_length <= 4000 THEN 2000
                        ELSE IF tier_length <= 8000 THEN 4000
                        ELSE IF tier_length <= 15000 THEN 8000
                        ELSE 8000)
        /\ tier_length > 0 => ChunkSizeForLength(tier_length - 1) <= tier_size

\* C15 witness: the call for length 8000, the upper end of the second tier,
\* returned 4000
C15_Witness == tier_pc = "done" /\ tier_length = 8000 /\ tier_size = 4000

(* --------------------- two user creations at once ---------------------- *)
\* the registrations that race: POST /users without a token
RaceRequests == {Req("POST", <<"api", "users">>, NoToken, b) : b \in UserBodies}

\* a request thread that serves a single request
RaceAccept(w) == \E r \in RaceRequests : wk[w].pc = "idle" /\ RequireAuth(w, r)

NextRace ==
    \E w \in Workers : RaceAccept(w) \/ CreateUser(w) \/ CreateUserInsert(w)

SpecRace == Init /\ [][NextRace]_vars

(* ------------------- two transcript creations at once ------------------ *)
\* the creations that race: POST /transcripts for video 1
ReplaceRequests ==
    {Req("POST", <<"api", "transcripts">>, t, [NoBody EXCEPT !.video_id = 1, !.content = c]) :
        t \in Tokens \ {NoToken},
        c \in {<<"a", " ", "b">>, <<"b">>, <<" ", "a">>}}

ReplaceAccept(w) ==
    \E r \in ReplaceRequests : wk[w].pc = "idle" /\ RequireAuth(w, r)

NextReplace ==
    \E w \in Workers :
        ReplaceAccept(w) \/ CreateTranscriptDelete(w) \/ CreateTranscriptAdd(w)

SpecReplace == Init /\ [][NextReplace]_vars

(* ----------------------- service-level properties ---------------------- *)
\* the path, without /api, is an entry of the configured exemption set
InExemptionSet(r) ==
    \E i \in 1..Len(ExemptRoutes) : ExemptRoutes[i] = StripApiPrefix(r.path)

\* the step is the gate taking up request wk'[w].req on thread w
GateStep(w) == wk[w].pc \in {"idle", "done"} /\ wk'[w] # wk[w]

\* the step is the route handler of thread w answering its request
AnswerStep(w, name) ==
    /\ wk[w].pc \in {"route", "insert"}
    /\ wk'[w].pc = "done"
    /\ Route(wk[w].req) = name

TranscriptsOf(rows, video_id) == {t \in rows : t.video_id = video_id}

\* the chunks create_transcript is to store for a request body
ChunksFor(body) ==
    SplitIntoChunks(Strip(body.content),
                    ChunkSizeForLength(Len(Strip(body.content))))

\* the body is one create_transcript accepts: a stored video, content that
\* is not blank
AcceptedTranscriptBody(body) ==
    /\ VideoExists(videos, body.video_id)
    /\ Strip(body.content) # <<>>

C4_ReplacesPriorChunks ==
    [][\A w \in Workers :
        (/\ AnswerStep(w, "create_transcript")
         /\ AcceptedTranscriptBody(wk[w].req.body)
         /\ TranscriptsOf(transcripts, wk[w].req.body.video_id) # {})
        => LET video_id == wk[w].req.body.video_id
               chunks == ChunksFor(wk[w].req.body)
               rows == TranscriptsOf(transcripts', video_id)
           IN  /\ Cardinality(rows) = Len(chunks)
               /\ {t.content : t \in rows} = {chunks[i] : i \in 1..Len(chunks)}
               /\ transcripts' \ rows = transcripts \ TranscriptsOf(transcripts, video_id)
      ]_vars

\* C5: when create_transcript has answered a request it accepts, the video
\* holds, for every i, a transcript whose content is the i-th chunk of the
\* chunker and whose chunk_index is i (counting from 0).
C5_ChunksIndexedInOrder ==
    \A w \in Workers :
        (/\ wk[w].pc = "done"
         /\ Route(wk[w].req) = "create_transcript"
         /\ wk[w].status # 401
         /\ AcceptedTranscriptBody(wk[w].req.body))
        => LET chunks == ChunksFor(wk[w].req.body)
               rows == TranscriptsOf(transcripts, wk[w].req.body.video_id)
           IN  \A i \in 1..Len(chunks) :
                   \E t \in rows : t.chunk_index = i - 1 /\ t.content = chunks[i]

\* C6: two user creations with the same username, one not stored before,
\* both answered: one got 201 and the other 409; and no two stored users
\* ever have the same username.
C6_OneCreatedOneConflict ==
    /\ \A u, v \in users : u.username = v.username => u = v
    /\ (/\ wk[1].pc = "done" /\ wk[2].pc = "done"
        /\ Route(wk[1].req) = "create_user" /\ Route(wk[2].req) = "create_user"
        /\ wk[1].req.body = wk[2].req.body
        /\ Strip(wk[1].req.body.username) # <<>>
        /\ wk[1].req.body.password # <<>>
        /\ \A s \in SeedUsers : s.username # Strip(wk[1].req.body.username))
       => {wk[1].status, wk[2].status} = {201, 409}

\* C7: a request without a token to a path of the exemption set is not
\* answered 401, neither by the gate nor by its route.  (The 401 by which
\* login turns down a wrong username or password is not counted.)
C7_ExemptNeedsNoToken ==
    \A w \in Workers :
        (/\ wk[w].pc = "done"
         /\ InExemptionSet(wk[w].req)
         /\ wk[w].req.token.kind = "none"
         /\ Route(wk[w].req) # "login")
        => wk[w].status # 401

\* C8: a request to a path outside the exemption set with no token or an
\* invalid one is answered 401 by the gate itself, in the step that takes it
\* up, and that step changes no table.
C8_NoTokenIs401 ==
    [][\A w \in Workers :
        (/\ wk'[w] # wk[w]
         /\ ~InExemptionSet(wk'[w].req)
         /\ wk'[w].req.token.kind # "valid")
        => (/\ wk'[w].pc = "done"
            /\ wk'[w].status = 401
            /\ UNCHANGED dbVars)
      ]_vars

\* C8 witness: DELETE /users/2 without a token was answered 401 while user 2
\* is stored
C8_Witness ==
    /\ wk[1].pc = "done"
    /\ wk[1].status = 401
    /\ wk[1].req = Req("DELETE", <<"api", "users", 2>>, NoToken, NoBody)
    /\ \E u \in users : u.id = 2

\* C9: when the gate takes up a request to a path outside the exemption set
\* whose valid token names a stored user, the request goes on to its route
\* with that stored user and the token's subject attached.
C9_ResolvesTokenUser ==
    [][\A w \in Workers :
        (/\ GateStep(w)
         /\ ~InExemptionSet(wk'[w].req)
         /\ wk'[w].req.token.kind = "valid"
         /\ \E u \in users : u.id = wk'[w].req.token.sub)
        => (/\ wk'[w].pc = "route"
            /\ wk'[w].ctx.current_user \in users
            /\ wk'[w].ctx.current_user.id = wk'[w].req.token.sub
            /\ wk'[w].ctx.current_user_id = wk'[w].req.token.sub)
      ]_vars

\* C9 witness: a request with the token of user 2 is at its route with user 2
\* attached, user 1 being stored too
C9_Witness ==
    /\ wk[1].pc = "route"
    /\ Route(wk[1].req) = "delete_transcript"
    /\ wk[1].req.token = [kind |-> "valid", sub |-> 2]
    /\ wk[1].ctx.current_user = [id |-> 2, username |-> <<"b">>]
    /\ wk[1].ctx.current_user_id = 2
    /\ \E u \in users : u.id = 1

\* C10: once delete_user has removed the user a valid token names, the gate
\* answers every request to a path outside the exemption set that carries
\* the token with 401.
C10_DeletedUserIs401 ==
    [][\A w \in Workers :
        (/\ GateStep(w)
         /\ ~InExemptionSet(wk'[w].req)
         /\ wk'[w].req.token.kind = "valid"
         /\ wk'[w].req.token.sub \in deleted_users)
        => (wk'[w].pc = "done" /\ wk'[w].status = 401)
      ]_vars

\* C10 witness: user 2 was deleted and a later request with the token of
\* user 2 was answered 401
C10_Witness ==
    /\ 2 \in deleted_users
    /\ wk[1].pc = "done"
    /\ wk[1].status = 401
    /\ wk[1].req.token = [kind |-> "valid", sub |-> 2]
    /\ Route(wk[1].req) = "create_transcript"

TableOf(name) ==
    CASE name = "delete_user" -> users
      [] name = "delete_collection" -> collections
      [] name = "delete_video" -> videos
      [] name = "delete_transcript" -> transcripts

DeleteRoutes ==
    {"delete_user", "delete_collection", "delete_video", "delete_transcript"}

\* C12: when a delete route answers a request whose id is not stored in its
\* table, the answer is 404 and no table has changed.
C12_DeleteMissingIs404 ==
    [][\A w \in Workers : \A name \in DeleteRoutes :
        (/\ AnswerStep(w, name)
         /\ wk[w].req.path[3] \notin Ids(TableOf(name)))
        => (wk'[w].status = 404 /\ UNCHANGED dbVars)
      ]_vars

\* C12 witness: DELETE /videos/2 was answered 404 while video 1, the only
\* video, is stored
C12_Witness ==
    /\ wk[1].pc = "done"
    /\ wk[1].status = 404
    /\ Route(wk[1].req) = "delete_video"
    /\ wk[1].req.path[3] = 2
    /\ videos = SeedVideos

\* C13: when create_collection answers a request whose user_id is not a
\* stored user, create_video one whose collection_id is not a stored
\* collection, or create_transcript one whose video_id is not a stored
\* video, the answer is 400 and no table has changed (so no row was
\* inserted and no chunk of any video deleted).
C13_MissingParentIs400 ==
    [][\A w \in Workers :
        (\/ /\ AnswerStep(w, "create_collection")
            /\ wk[w].req.body.user_id \notin Ids(users)
         \/ /\ AnswerStep(w, "create_video")
            /\ wk[w].req.body.collection_id \notin Ids(collections)
         \/ /\ AnswerStep(w, "create_transcript")
            /\ wk[w].req.body.video_id \notin Ids(videos))
        => (wk'[w].status = 400 /\ UNCHANGED dbVars)
      ]_vars

\* C13 witness: a transcript with content for video 2, which is not stored,
\* was answered 400 while video 1 keeps its two chunks
C13_Witness ==
    /\ wk[1].pc = "done"
    /\ wk[1].status = 400
    /\ Route(wk[1].req) = "create_transcript"
    /\ wk[1].req.body.video_id = 2
    /\ wk[1].req.body.content = <<"a", " ", "b">>
    /\ videos = SeedVideos
    /\ transcripts = SeedTranscripts

\* the routes that change stored data when they succeed
MutatingRoutes ==
    {"create_user", "create_collection", "create_video", "create_transcript",
     "update_video"} \cup DeleteRoutes

\* C16: when a mutating route answers with 400, 404, 409 or 500, no table
\* has changed.
C16_ErrorChangesNothing ==
    [][\A w \in Workers : \A name \in MutatingRoutes :
        (/\ AnswerStep(w, name)
         /\ wk'[w].status \in {400, 404, 409, 500})
        => UNCHANGED dbVars
      ]_vars

\* C16 witness: a transcript for video 1 with content was answered 500 and
\* video 1 keeps the two chunks it had
C16_Witness ==
    /\ wk[1].pc = "done"
    /\ wk[1].status = 500
    /\ Route(wk[1].req) = "create_transcript"
    /\ wk[1].req.body.video_id = 1
    /\ Strip(wk[1].req.body.content) # <<>>
    /\ transcripts = SeedTranscripts

\* C17: a POST /transcripts that passed the gate with a token, for a stored
\* video and content that is not blank, is answered 201, and the video then
\* holds one transcript for each chunk of the content.
C17_TranscriptCreated ==
    \A w \in Workers :
        (/\ wk[w].pc = "done"
         /\ Route(wk[w].req) = "create_transcript"
         /\ wk[w].ctx.current_user # NoUser
         /\ AcceptedTranscriptBody(wk[w].req.body))
        => LET chunks == ChunksFor(wk[w].req.body)
               rows == TranscriptsOf(transcripts, wk[w].req.body.video_id)
           IN  /\ wk[w].status = 201
               /\ {t.content : t \in rows} = {chunks[i] : i \in 1..Len(chunks)}

\* the field is absent, empty or blank
Blank(field) == Strip(field) = <<>>

\* C18: when create_video answers a request, then: if a required field is
\* empty the answer is 400; if the fields are filled, the collection is
\* stored and a stored video has the youtube_id, the answer is 409 and the
\* videos are unchanged; and in any case no two stored videos have the same
\* youtube_id.
C18_DuplicateVideoIs409 ==
    [][\A w \in Workers :
        AnswerStep(w, "create_video") =>
            LET data == wk[w].req.body
                filled == /\ ~Blank(data.youtube_id) /\ ~Blank(data.title)
                          /\ data.collection_id # 0
            IN  /\ ~filled => wk'[w].status = 400
                /\ (/\ filled
                    /\ data.collection_id \in Ids(collections)
                    /\ \E v \in videos : v.youtube_id = Strip(data.youtube_id))
                   => (wk'[w].status = 409 /\ UNCHANGED videos)
                /\ \A u, v \in videos' : u.youtube_id = v.youtube_id => u = v
      ]_vars

\* C18 witness: a video with the youtube_id of stored video 1, padded with a
\* space, for the stored collection 1, was answered 409
C18_Witness ==
    /\ wk[1].pc = "done"
    /\ wk[1].status = 409
    /\ Route(wk[1].req) = "create_video"
    /\ wk[1].req.body.youtube_id = <<"a", " ">>
    /\ wk[1].req.body.collection_id = 1
    /\ videos = SeedVideos

\* C20: a login with a username and a password is answered 200 (a token is
\* issued) or 401 (none is), and it is 401 when no stored user has the
\* username.
C20_LoginIssuesOrRefuses ==
    \A w \in Workers :
        (/\ wk[w].pc = "done"
         /\ Route(wk[w].req) = "login"
         /\ wk[w].req.body.username # <<>>
         /\ wk[w].req.body.password # <<>>)
        => /\ wk[w].status \in {200, 401}
           /\ (\A u \in users : u.username # wk[w].req.body.username)
                => wk[w].status = 401

\* C28: update_video changes no video but the one addressed, there only
\* the fields the request supplies and never youtube_id or id; a request it
\* does not answer 200 leaves every video as it was, and a request with a
\* stored collection_id and a blank title is answered 400.
C28_UpdateVideoFrame ==
    [][\A w \in Workers : AnswerStep(w, "update_video") =>
        LET data == wk[w].req.body
            video_id == wk[w].req.path[3]
        IN  /\ \A v \in videos : v.id # video_id => v \in videos'
            /\ {v.id : v \in videos'} = {v.id : v \in videos}
            /\ \A v \in videos, u \in videos' :
                    (v.id = video_id /\ u.id = video_id) =>
                        /\ u.youtube_id = v.youtube_id
                        /\ data.title = <<>> => u.title = v.title
                        /\ data.description = <<>> => u.description = v.description
                        /\ data.collection_id = 0
                                => u.collection_id = v.collection_id
            /\ wk'[w].status # 200 => videos' = videos
            /\ (/\ video_id \in {v.id : v \in videos}
                /\ data.title # <<>> /\ Strip(data.title) = <<>>)
                    => wk'[w].status = 400
            /\ (/\ video_id \in {v.id : v \in videos}
                /\ data.collection_id # 0
                /\ data.collection_id \notin {c.id : c \in collections})
                    => wk'[w].status = 400
      ]_vars

\* C28 witness: a request to move video 1 from collection 1 to the stored
\* collection 2 with a blank title was answered 400 and the video is still
\* in collection 1
C28_Witness ==
    /\ wk[1].pc = "done" /\ wk[1].status = 400
    /\ Route(wk[1].req) = "update_video"
    /\ wk[1].req.path[3] = 1
    /\ wk[1].req.body.collection_id = 2
    /\ wk[1].req.body.title = <<" ">>
    /\ \E c \in collections : c.id = 2
    /\ \E v \in videos : v.id = 1 /\ v.collection_id = 1

=============================================================================
